---- MODULE Spec2Model ----
(***************************************************************************)
(* Verification model of the winsafe binding layer: the HDWP handle guard  *)
(* (user/handles/hdwp.rs), the IMediaSeeking and IFileSaveDialog COM        *)
(* wrappers, and the DialogMain / RadioButton GUI objects.  The operating   *)
(* system side (handle allocation, virtual-table entries, message queue)    *)
(* is the environment: its return values are drawn from small sets.         *)
(***************************************************************************)
EXTENDS Integers, Sequences, FiniteSets, TLC

\* ------------------------------------------------------------------ bounds
NumGuards == 2
MaxHandle == 3
MaxDefer == 2
MaxTime == 1
MaxCalls == 2
NumItems == 1
MaxHwnd == 2
MaxQueue == 2
MaxOps == 3

\* --------------------------------------------------------------- constants
NULL == 0
INVALID == 0 - 1
ERROR_INVALID_HANDLE == 6
ERROR_NOT_ENOUGH_MEMORY == 8

S_OK == 0
S_FALSE == 1
E_NOTIMPL == 0 - 2147467263
E_FAIL == 0 - 2147467259
TIME_FORMAT_NONE == <<0, 0>>
TIME_FORMAT_MEDIA_TIME == <<1, 1>>
NoItem == 0

Guards == 1..NumGuards
Times == 0..MaxTime
TimeFormats == {TIME_FORMAT_NONE, TIME_FORMAT_MEDIA_TIME}
HResults == {S_OK, S_FALSE, E_NOTIMPL, E_FAIL}
Wrappers == {"IMediaSeeking", "IFileSaveDialog"}
Items == 1..NumItems
HwndValues == 1..MaxHwnd
HandleValues == 1..MaxHandle
SysErrors == {ERROR_INVALID_HANDLE, ERROR_NOT_ENOUGH_MEMORY}

\* Results: val is the tuple of returned values (<<>> for the unit value)
Ok(v) == [ok |-> TRUE, val |-> v, err |-> 0]
Err(e) == [ok |-> FALSE, val |-> <<>>, err |-> e]
NoResult == [ok |-> FALSE, val |-> <<>>, err |-> 0 - 1]

VARIABLES
    osLive,      \* HDWP structures the OS currently has allocated
    lastError,   \* the thread's last-error code (GetLastError)
    guard,       \* per guard slot: [st, handle]
    endCalls,    \* per guard: number of EndDeferWindowPos calls made for it
    endArg,      \* per guard: handle passed to the last EndDeferWindowPos
    osRet,       \* per guard: handle most recently returned by the OS to it
    beginRet,    \* per guard: handle BeginDeferWindowPos returned for it
    nDefer,      \* per guard: number of DeferWindowPos calls made on it
    failed,      \* per guard: some DeferWindowPos call on it has failed
    hdwpRes      \* per guard: result of the last call on it

hdwpVars == <<osLive, lastError, guard, endCalls, endArg, osRet, beginRet,
              nDefer, failed, hdwpRes>>

VARIABLES
    comObj,        \* the media object behind the IMediaSeeking pointer
    saveAsItem,    \* the item the file-save dialog object currently holds
    wrapper,       \* per COM wrapper: "alive" or "dropped"
    refCount,      \* per COM wrapper: reference count of the object it owns
    releaseCalls,  \* per COM wrapper: IUnknown::Release calls made by it
    nCalls,        \* per COM wrapper: method calls made through it
    vtLast,        \* the virtual-table entry invoked by the last method call
    comOp,         \* the wrapper method called last
    comHr,         \* the HRESULT the invoked entry returned
    comRes         \* the result the wrapper method returned

comVars == <<comObj, saveAsItem, wrapper, refCount, releaseCalls, nCalls,
             vtLast, comOp, comHr, comRes>>

VARIABLES
    iconId,      \* DialogMain.icon_id is Some
    accelId,     \* DialogMain.accel_table_id is Some
    optsKind,    \* RadioButton OptsId: "Wnd" or "Dlg"
    dlgHwnd,     \* handle stored in the dialog base
    wndAlive,    \* the OS window of the dialog exists
    wndDestroyed,\* the OS window of the dialog has been destroyed
    msgQueue,    \* posted messages of the GUI thread
    quitPosted,  \* PostQuitMessage has been called
    quitCode,    \* exit code given to PostQuitMessage
    closeReceived, \* a WM_CLOSE has been dispatched to the dialog
    runState,    \* position of run_main: "idle", "loop", "returned"
    runRes,      \* what run_main returned
    hctrl,       \* handle stored in the radio button's control base
    rbCreated,   \* a create() call on the radio button has succeeded
    rbChecked,   \* check state of the radio button's OS control
    rbEvents,    \* handlers registered through on()
    rbSubclass,  \* handlers registered through on_subclass()
    guiPanicked, \* the GUI thread has panicked
    guiOp,       \* the radio button operation called last
    nOps,        \* number of radio button operations called
    rbRes,       \* what the last radio button operation returned
    isChecked    \* what the last is_checked() call returned

guiVars == <<iconId, accelId, optsKind, dlgHwnd, wndAlive, wndDestroyed,
             msgQueue, quitPosted, quitCode, closeReceived, runState, runRes,
             hctrl, rbCreated, rbChecked, rbEvents, rbSubclass, guiPanicked,
             guiOp, nOps, rbRes, isChecked>>

vars == <<hdwpVars, comVars, guiVars>>

\* ------------------------------------------------------------ HDWP / guard
HdwpInit ==
    /\ osLive = {}
    /\ lastError = 0
    /\ guard = [g \in Guards |-> [st |-> "none", handle |-> NULL]]
    /\ endCalls = [g \in Guards |-> 0]
    /\ endArg = [g \in Guards |-> NULL]
    /\ osRet = [g \in Guards |-> NULL]
    /\ beginRet = [g \in Guards |-> NULL]
    /\ nDefer = [g \in Guards |-> 0]
    /\ failed = [g \in Guards |-> FALSE]
    /\ hdwpRes = [g \in Guards |-> NoResult]

\* user::ffi::BeginDeferWindowPos, as <<returned pointer, last-error>>: a
\* fresh structure, or null when resources run out
ffi_BeginDeferWindowPos_rets ==
    {<<NULL, ERROR_NOT_ENOUGH_MEMORY>>}
    \cup {<<p, lastError>> : p \in HandleValues \ osLive}

\* user::ffi::DeferWindowPos on handle h: null when h is not a live structure
\* or when resources run out; otherwise the same or a reallocated handle
ffi_DeferWindowPos_rets(h) ==
    IF h \in osLive
       THEN {<<NULL, ERROR_NOT_ENOUGH_MEMORY>>}
            \cup {<<p, lastError>> : p \in {h} \cup (HandleValues \ osLive)}
       ELSE {<<NULL, ERROR_INVALID_HANDLE>>}

\* Result of BeginDeferWindowPos for the pointer the OS returned
BeginDeferWindowPos_result(ptr, e) ==
    IF ptr # NULL THEN Ok(<<ptr>>) ELSE Err(e)

BeginDeferWindowPos(g) ==
    /\ guard[g].st = "none"
    /\ hdwpRes[g] = NoResult
    /\ \E ret \in ffi_BeginDeferWindowPos_rets :
          LET ptr == ret[1]
              r == BeginDeferWindowPos_result(ptr, ret[2]) IN
          /\ hdwpRes' = [hdwpRes EXCEPT ![g] = r]
          /\ osRet' = [osRet EXCEPT ![g] = ptr]
          /\ beginRet' = [beginRet EXCEPT ![g] = ptr]
          /\ lastError' = ret[2]
          /\ osLive' = IF ptr # NULL THEN osLive \cup {ptr} ELSE osLive
          /\ guard' = [guard EXCEPT ![g] =
                 IF r.ok THEN [st |-> "live", handle |-> r.val[1]] ELSE @]
    /\ UNCHANGED <<endCalls, endArg, nDefer, failed>>

\* Variants of the handle update with one branch wrong
DeferWindowPos_stored_invalidates(old, ptr) == INVALID

DeferWindowPos_stored_keeps_on_failure(old, ptr) ==
    IF ptr # NULL THEN ptr ELSE old

DeferWindowPos_stored_no_update(old, ptr) ==
    IF ptr # NULL THEN old ELSE INVALID

\* The handle stored in the object after DeferWindowPos got ptr from the OS
DeferWindowPos_stored(old, ptr) ==
    IF ptr # NULL THEN ptr ELSE INVALID

DeferWindowPos_result(ptr, e) ==
    IF ptr # NULL THEN Ok(<<>>) ELSE Err(e)

DeferWindowPos(g) ==
    /\ guard[g].st = "live"
    /\ nDefer[g] < MaxDefer
    /\ LET h == guard[g].handle IN
       \E ret \in ffi_DeferWindowPos_rets(h) :
          LET ptr == ret[1] IN
          /\ guard' = [guard EXCEPT ![g].handle = DeferWindowPos_stored(h, ptr)]
          /\ hdwpRes' = [hdwpRes EXCEPT ![g] =
                            DeferWindowPos_result(ptr, ret[2])]
          /\ osRet' = [osRet EXCEPT ![g] = ptr]
          /\ nDefer' = [nDefer EXCEPT ![g] = @ + 1]
          /\ failed' = [failed EXCEPT ![g] = @ \/ ptr = NULL]
          /\ lastError' = ret[2]
          /\ osLive' = IF ptr # NULL THEN (osLive \ {h}) \cup {ptr}
                       ELSE osLive \ {h}
    /\ UNCHANGED <<endCalls, endArg, beginRet>>

\* Drop of a handle guard: the cleaner runs on the stored handle unless the
\* handle is null or invalid
handle_guard_drop_calls(h) == h # NULL /\ h # INVALID

HdwpGuard_drop_calls(h) == handle_guard_drop_calls(h)

HdwpGuard_drop(g) ==
    /\ guard[g].st = "live"
    /\ LET h == guard[g].handle IN
       IF HdwpGuard_drop_calls(h)
          THEN /\ endCalls' = [endCalls EXCEPT ![g] = @ + 1]
               /\ endArg' = [endArg EXCEPT ![g] = h]
               /\ osLive' = osLive \ {h}
          ELSE UNCHANGED <<endCalls, endArg, osLive>>
    /\ guard' = [guard EXCEPT ![g].st = "dropped"]
    /\ UNCHANGED <<lastError, osRet, beginRet, nDefer, failed, hdwpRes>>

\* ------------------------------------------------------------ COM wrappers
\* The COM side at rest, for the specifications that do not exercise it
ComIdle ==
    /\ comObj = [current |-> 0, stop |-> 0, early |-> 0, late |-> 0,
                 format |-> TIME_FORMAT_NONE]
    /\ saveAsItem = NoItem
    /\ wrapper = [w \in Wrappers |-> "alive"]
    /\ refCount = [w \in Wrappers |-> 1]
    /\ releaseCalls = [w \in Wrappers |-> 0]
    /\ nCalls = [w \in Wrappers |-> 0]
    /\ vtLast = "none"
    /\ comOp = "none"
    /\ comHr = S_OK
    /\ comRes = NoResult

\* `hresult as u32`, the 32-bit pattern kept as <<high 16 bits, low 16 bits>>
ToU32(hr) ==
    IF hr >= 0
       THEN <<hr \div 65536, hr % 65536>>
       ELSE LET t == (hr + 2147483647) + 1 IN
            <<(t \div 65536) + 32768, t % 65536>>

ERROR_S_OK == ToU32(S_OK)
ERROR_S_FALSE == ToU32(S_FALSE)

\* HRESULT-to-Result translation: S_OK is Ok, any other code is the error
hr_to_winresult(hr) ==
    IF ToU32(hr) = ERROR_S_OK THEN Ok(<<>>) ELSE Err(ToU32(hr))

ok_to_hrresult(hr) ==
    IF ToU32(hr) = ERROR_S_OK THEN Ok(<<>>) ELSE Err(ToU32(hr))

\* Result::map
MapRes(r, v) == IF r.ok THEN Ok(v) ELSE r

\* What each IMediaSeekingVT entry writes through its out-pointers
VTOut(entry, obj) ==
    CASE entry = "GetPositions"       -> <<obj.current, obj.stop>>
      [] entry = "GetAvailable"       -> <<obj.early, obj.late>>
      [] entry = "GetStopPosition"    -> <<obj.stop>>
      [] entry = "GetCurrentPosition" -> <<obj.current>>
      [] entry = "GetTimeFormat"      -> obj.format

\* An entry invoked on out-buffer buf: the buffer after the call.  An entry
\* writes as many 64-bit words as its own signature says, whatever the
\* caller's buffer was declared as.
VTCall(entry, obj, wrote, buf) ==
    LET out == VTOut(entry, obj) IN
    IF wrote
       THEN [i \in 1..Len(buf) |-> IF i <= Len(out) THEN out[i] ELSE buf[i]]
       ELSE buf

IMediaSeeking_GetAvailable(obj, hr, wrote) ==
    LET buf == VTCall("GetPositions", obj, wrote, <<0, 0>>) IN
    [entry |-> "GetPositions",
     res |-> MapRes(hr_to_winresult(hr), <<buf[1], buf[2]>>)]

\* Variant returning the pair in the wrong order
IMediaSeeking_GetPositions_swapped(obj, hr, wrote) ==
    LET buf == VTCall("GetPositions", obj, wrote, <<0, 0>>) IN
    [entry |-> "GetPositions",
     res |-> MapRes(hr_to_winresult(hr), <<buf[2], buf[1]>>)]

IMediaSeeking_GetPositions(obj, hr, wrote) ==
    LET buf == VTCall("GetPositions", obj, wrote, <<0, 0>>) IN
    [entry |-> "GetPositions",
     res |-> MapRes(hr_to_winresult(hr), <<buf[1], buf[2]>>)]

IMediaSeeking_GetStopPosition(obj, hr, wrote) ==
    LET buf == VTCall("GetStopPosition", obj, wrote, <<0>>) IN
    [entry |-> "GetStopPosition",
     res |-> MapRes(hr_to_winresult(hr), <<buf[1]>>)]

IMediaSeeking_GetTimeFormat(obj, hr, wrote) ==
    LET buf == VTCall("GetStopPosition", obj, wrote, TIME_FORMAT_NONE) IN
    [entry |-> "GetStopPosition",
     res |-> MapRes(hr_to_winresult(hr), buf)]

IMediaSeekingMethod(name, obj, hr, wrote) ==
    CASE name = "GetAvailable"    -> IMediaSeeking_GetAvailable(obj, hr, wrote)
      [] name = "GetPositions"    -> IMediaSeeking_GetPositions(obj, hr, wrote)
      [] name = "GetStopPosition" -> IMediaSeeking_GetStopPosition(obj, hr, wrote)
      [] name = "GetTimeFormat"   -> IMediaSeeking_GetTimeFormat(obj, hr, wrote)

ComInit ==
    /\ comObj \in [current : Times, stop : Times, early : Times,
                   late : Times, format : TimeFormats]
    /\ saveAsItem = NoItem
    /\ wrapper = [w \in Wrappers |-> "alive"]
    /\ refCount = [w \in Wrappers |-> 1]
    /\ releaseCalls = [w \in Wrappers |-> 0]
    /\ nCalls = [w \in Wrappers |-> 0]
    /\ vtLast = "none"
    /\ comOp = "none"
    /\ comHr = S_OK
    /\ comRes = NoResult

\* A method call through the IMediaSeeking wrapper.  The entry reports
\* success only after writing its out-values; on failure it may or may not
\* have written them.
CallMethod(name) ==
    /\ wrapper["IMediaSeeking"] = "alive"
    /\ nCalls["IMediaSeeking"] < MaxCalls
    /\ \E hr \in HResults, wrote \in BOOLEAN :
          /\ (hr >= 0 => wrote)
          /\ LET c == IMediaSeekingMethod(name, comObj, hr, wrote) IN
             /\ vtLast' = c.entry
             /\ comRes' = c.res
          /\ comHr' = hr
    /\ comOp' = name
    /\ nCalls' = [nCalls EXCEPT !["IMediaSeeking"] = @ + 1]
    /\ UNCHANGED <<comObj, saveAsItem, wrapper, refCount, releaseCalls>>

GetAvailable == CallMethod("GetAvailable")
GetPositions == CallMethod("GetPositions")
GetStopPosition == CallMethod("GetStopPosition")
GetTimeFormat == CallMethod("GetTimeFormat")

\* Variant translating the code the way the other methods do
IMediaSeeking_SetPositions_only_s_ok(hr) ==
    [entry |-> "SetPositions", res |-> hr_to_winresult(hr)]

IMediaSeeking_SetPositions(hr) ==
    [entry |-> "SetPositions",
     res |-> IF ToU32(hr) \in {ERROR_S_OK, ERROR_S_FALSE}
                THEN Ok(<<>>) ELSE Err(ToU32(hr))]

\* The SetPositions entry: on S_OK each position given with absolute
\* positioning is taken over by the object; otherwise nothing moves
SeekingFlags == {"NoPositioning", "AbsolutePositioning"}

SetPositions ==
    /\ wrapper["IMediaSeeking"] = "alive"
    /\ nCalls["IMediaSeeking"] < MaxCalls
    /\ \E hr \in HResults, current \in Times, stop \in Times,
          currentFlags \in SeekingFlags, stopFlags \in SeekingFlags :
          LET c == IMediaSeeking_SetPositions(hr) IN
          \* a position passed with NoPositioning is ignored: one value
          \* stands for all
          /\ currentFlags = "NoPositioning" => current = 0
          /\ stopFlags = "NoPositioning" => stop = 0
          /\ vtLast' = c.entry
          /\ comRes' = c.res
          /\ comHr' = hr
          /\ comObj' =
                IF hr = S_OK
                   THEN [comObj EXCEPT
                           !.current = IF currentFlags = "AbsolutePositioning"
                                          THEN current ELSE @,
                           !.stop = IF stopFlags = "AbsolutePositioning"
                                       THEN stop ELSE @]
                   ELSE comObj
    /\ comOp' = "SetPositions"
    /\ nCalls' = [nCalls EXCEPT !["IMediaSeeking"] = @ + 1]
    /\ UNCHANGED <<saveAsItem, wrapper, refCount, releaseCalls>>

shell_IFileSaveDialog_SetSaveAsItem(hr) ==
    [entry |-> "SetSaveAsItem", res |-> ok_to_hrresult(hr)]

SetSaveAsItem ==
    /\ wrapper["IFileSaveDialog"] = "alive"
    /\ nCalls["IFileSaveDialog"] < MaxCalls
    /\ \E hr \in HResults, psi \in Items :
          LET c == shell_IFileSaveDialog_SetSaveAsItem(hr) IN
          /\ vtLast' = c.entry
          /\ comRes' = c.res
          /\ comHr' = hr
          /\ saveAsItem' = IF hr >= 0 THEN psi ELSE saveAsItem
    /\ comOp' = "SetSaveAsItem"
    /\ nCalls' = [nCalls EXCEPT !["IFileSaveDialog"] = @ + 1]
    /\ UNCHANGED <<comObj, wrapper, refCount, releaseCalls>>

\* Drop of a COM wrapper: one IUnknown::Release on the owned pointer
IUnknown_drop_releases(w) == 1

\* Variant releasing the pointer a second time at drop
IMediaSeeking_drop_releases_twice == 2 * IUnknown_drop_releases("IMediaSeeking")

IMediaSeeking_drop_releases == IUnknown_drop_releases("IMediaSeeking")

IFileSaveDialog_drop_releases == IUnknown_drop_releases("IFileSaveDialog")

DropReleases(w) ==
    IF w = "IMediaSeeking" THEN IMediaSeeking_drop_releases
    ELSE IFileSaveDialog_drop_releases

ComWrapper_drop(w) ==
    /\ wrapper[w] = "alive"
    /\ wrapper' = [wrapper EXCEPT ![w] = "dropped"]
    /\ releaseCalls' = [releaseCalls EXCEPT ![w] = @ + DropReleases(w)]
    /\ refCount' = [refCount EXCEPT ![w] = @ - DropReleases(w)]
    /\ UNCHANGED <<comObj, saveAsItem, nCalls, vtLast, comOp, comHr, comRes>>

\* ---------------------------------------------------- DialogMain, RadioButton
GuiInitWith(icon, accel, kind) ==
    /\ iconId = icon
    /\ accelId = accel
    /\ optsKind = kind
    /\ dlgHwnd = NULL
    /\ wndAlive = FALSE
    /\ wndDestroyed = FALSE
    /\ msgQueue = <<>>
    /\ quitPosted = FALSE
    /\ quitCode = 0
    /\ closeReceived = FALSE
    /\ runState = "idle"
    /\ runRes = NoResult
    /\ hctrl = NULL
    /\ rbCreated = FALSE
    /\ rbChecked = FALSE
    /\ rbEvents = 0
    /\ rbSubclass = 0
    /\ guiPanicked = FALSE
    /\ guiOp = "none"
    /\ nOps = 0
    /\ rbRes = NoResult
    /\ isChecked = FALSE

GuiIdle == GuiInitWith(FALSE, FALSE, "Dlg")

GuiInit ==
    \E icon \in BOOLEAN, accel \in BOOLEAN, kind \in {"Wnd", "Dlg"} :
        GuiInitWith(icon, accel, kind)

dlgUnchanged ==
    UNCHANGED <<iconId, accelId, dlgHwnd, wndAlive, wndDestroyed, quitPosted,
                quitCode, closeReceived, runState, runRes>>

\* The OS window of the radio button exists: children die with the parent
ctrlAlive == hctrl # NULL /\ wndAlive

\* The steps of run_main before the message loop, in order; each may fail
run_main_steps(icon, accel) ==
    <<"create_dialog_param", "parent_hinstance">>
    \o (IF accel THEN <<"LoadAccelerators">> ELSE <<>>)
    \o (IF icon THEN <<"LoadImageIcon16", "LoadImageIcon32">> ELSE <<>>)

\* run_main up to the message loop.  failAt = 0: every step succeeded and
\* the loop is entered; failAt = i: step i returned an error.
run_main_enter ==
    /\ runState = "idle"
    /\ ~guiPanicked
    /\ LET steps == run_main_steps(iconId, accelId) IN
       \E failAt \in 0..Len(steps), h \in HwndValues, e \in SysErrors :
          /\ IF failAt = 1
                THEN UNCHANGED <<dlgHwnd, wndAlive>>
                ELSE /\ dlgHwnd' = h
                     /\ wndAlive' = TRUE
          /\ IF failAt = 0
                THEN /\ runState' = "loop"
                     /\ UNCHANGED runRes
                ELSE /\ runState' = "returned"
                     /\ runRes' = Err(e)
    /\ UNCHANGED <<iconId, accelId, optsKind, wndDestroyed, msgQueue,
                   quitPosted, quitCode, closeReceived, hctrl, rbCreated,
                   rbChecked, rbEvents, rbSubclass, guiPanicked, guiOp, nOps,
                   rbRes, isChecked>>

\* Default handlers installed by DialogMain::new
DialogMain_wm_close == "DestroyWindow"

\* Variant whose WM_NCDESTROY handler posts no quit message
DialogMain_wm_nc_destroy_no_quit == [quit |-> FALSE, code |-> 0]

DialogMain_wm_nc_destroy == [quit |-> TRUE, code |-> 0]

\* The user closes the window: WM_CLOSE is posted to the dialog
UserClose ==
    /\ runState = "loop"
    /\ wndAlive
    /\ Len(msgQueue) < MaxQueue
    /\ msgQueue' = Append(msgQueue, [hwnd |-> dlgHwnd, msg |-> "WM_CLOSE"])
    /\ UNCHANGED <<iconId, accelId, optsKind, dlgHwnd, wndAlive, wndDestroyed,
                   quitPosted, quitCode, closeReceived, runState, runRes,
                   hctrl, rbCreated, rbChecked, rbEvents, rbSubclass,
                   guiPanicked, guiOp, nOps, rbRes, isChecked>>

\* run_loop: GetMessage failed
LoopGetMessageError ==
    /\ runState = "loop"
    /\ ~guiPanicked
    /\ \E e \in SysErrors : runRes' = Err(e)
    /\ runState' = "returned"
    /\ UNCHANGED <<iconId, accelId, optsKind, dlgHwnd, wndAlive, wndDestroyed,
                   msgQueue, quitPosted, quitCode, closeReceived, hctrl,
                   rbCreated, rbChecked, rbEvents, rbSubclass, guiPanicked,
                   guiOp, nOps, rbRes, isChecked>>

\* run_loop: GetMessage delivered WM_QUIT (nothing else is queued and a quit
\* was posted); the loop ends with the exit code
LoopQuit ==
    /\ runState = "loop"
    /\ ~guiPanicked
    /\ msgQueue = <<>>
    /\ quitPosted
    /\ runState' = "returned"
    /\ runRes' = Ok(<<quitCode>>)
    /\ UNCHANGED <<iconId, accelId, optsKind, dlgHwnd, wndAlive, wndDestroyed,
                   msgQueue, quitPosted, quitCode, closeReceived, hctrl,
                   rbCreated, rbChecked, rbEvents, rbSubclass, guiPanicked,
                   guiOp, nOps, rbRes, isChecked>>

\* run_loop: GetMessage delivered a posted message, which is dispatched
LoopDispatch ==
    /\ runState = "loop"
    /\ ~guiPanicked
    /\ msgQueue # <<>>
    /\ LET m == Head(msgQueue) IN
       /\ msgQueue' = Tail(msgQueue)
       /\ IF m.msg = "WM_CLOSE" /\ m.hwnd = dlgHwnd /\ wndAlive
             THEN /\ closeReceived' = TRUE
                  /\ IF DialogMain_wm_close = "DestroyWindow"
                        THEN /\ wndAlive' = FALSE
                             /\ wndDestroyed' = TRUE
                             /\ IF DialogMain_wm_nc_destroy.quit
                                   THEN /\ quitPosted' = TRUE
                                        /\ quitCode' =
                                              DialogMain_wm_nc_destroy.code
                                   ELSE UNCHANGED <<quitPosted, quitCode>>
                        ELSE UNCHANGED <<wndAlive, wndDestroyed, quitPosted,
                                         quitCode>>
                  /\ UNCHANGED rbChecked
             ELSE /\ rbChecked' =
                        IF m.msg = "BM_CLICK" /\ m.hwnd = hctrl /\ ctrlAlive
                           THEN TRUE ELSE rbChecked
                  /\ UNCHANGED <<closeReceived, wndAlive, wndDestroyed,
                                 quitPosted, quitCode>>
    /\ UNCHANGED <<iconId, accelId, optsKind, dlgHwnd, runState, runRes,
                   hctrl, rbCreated, rbEvents, rbSubclass, guiPanicked, guiOp,
                   nOps, rbRes, isChecked>>

\* Code of the program runs on the GUI thread: before run_main, after it, or
\* in a handler while the window lives
CanCall ==
    /\ ~guiPanicked
    /\ nOps < MaxOps
    /\ runState \in {"idle", "returned"} \/ (runState = "loop" /\ wndAlive)

Called(op) ==
    /\ guiOp' = op
    /\ nOps' = nOps + 1

\* Control base: creating panics when the control exists already or the
\* parent does not exist yet
NativeControlBase_create_panics(hc, hparent) == hc # NULL \/ hparent = NULL

RadioButton_create_result(h, e) == IF h # NULL THEN Ok(<<>>) ELSE Err(e)

\* create() of a radio button built from options: measuring the text failed,
\* before any window is asked for
RadioButton_create_boxfail ==
    /\ CanCall
    /\ Called("create")
    /\ optsKind = "Wnd"
    /\ \E e \in SysErrors : rbRes' = Err(e)
    /\ UNCHANGED <<optsKind, msgQueue, hctrl, rbCreated, rbChecked, rbEvents,
                   rbSubclass, guiPanicked>>
    /\ dlgUnchanged
    /\ UNCHANGED isChecked

RadioButton_create ==
    /\ CanCall
    /\ Called("create")
    /\ IF NativeControlBase_create_panics(hctrl, dlgHwnd)
          THEN /\ guiPanicked' = TRUE
               /\ UNCHANGED <<hctrl, rbCreated, rbRes>>
          ELSE /\ UNCHANGED guiPanicked
               /\ \E h \in (HwndValues \ {dlgHwnd}) \cup {NULL},
                     e \in SysErrors :
                     /\ (h # NULL => wndAlive)
                     /\ hctrl' = h
                     /\ rbCreated' = (h # NULL)
                     /\ rbRes' = RadioButton_create_result(h, e)
    /\ UNCHANGED <<optsKind, msgQueue, rbChecked, rbEvents, rbSubclass>>
    /\ dlgUnchanged
    /\ UNCHANGED isChecked

\* Variant reading the parent's handle instead of the control's
RadioButton_hwnd_of_parent(hc, hparent) == hparent

RadioButton_hwnd(hc, hparent) == hc

hwnd ==
    /\ CanCall
    /\ Called("hwnd")
    /\ rbRes' = Ok(<<RadioButton_hwnd(hctrl, dlgHwnd)>>)
    /\ UNCHANGED <<optsKind, msgQueue, hctrl, rbCreated, rbChecked, rbEvents,
                   rbSubclass, guiPanicked>>
    /\ dlgUnchanged
    /\ UNCHANGED isChecked

\* Control base: exposing the events panics once the control or the parent
\* window is created
NativeControlBase_on_panics(hc, hparent) == hc # NULL \/ hparent # NULL

\* Variant that forgets the parent window
RadioButton_on_panics_ctrl_only(hc, hparent) == hc # NULL

RadioButton_on_panics(hc, hparent) == NativeControlBase_on_panics(hc, hparent)

RadioButton_on_subclass_panics(hc, hparent) ==
    NativeControlBase_on_panics(hc, hparent)

on ==
    /\ CanCall
    /\ Called("on")
    /\ IF RadioButton_on_panics(hctrl, dlgHwnd)
          THEN /\ guiPanicked' = TRUE
               /\ UNCHANGED <<rbEvents, rbRes>>
          ELSE /\ rbEvents' = rbEvents + 1
               /\ rbRes' = Ok(<<>>)
               /\ UNCHANGED guiPanicked
    /\ UNCHANGED <<optsKind, msgQueue, hctrl, rbCreated, rbChecked,
                   rbSubclass>>
    /\ dlgUnchanged
    /\ UNCHANGED isChecked

on_subclass ==
    /\ CanCall
    /\ Called("on_subclass")
    /\ IF RadioButton_on_subclass_panics(hctrl, dlgHwnd)
          THEN /\ guiPanicked' = TRUE
               /\ UNCHANGED <<rbSubclass, rbRes>>
          ELSE /\ rbSubclass' = rbSubclass + 1
               /\ rbRes' = Ok(<<>>)
               /\ UNCHANGED guiPanicked
    /\ UNCHANGED <<optsKind, msgQueue, hctrl, rbCreated, rbChecked, rbEvents>>
    /\ dlgUnchanged
    /\ UNCHANGED isChecked

is_checked ==
    /\ CanCall
    /\ Called("is_checked")
    /\ rbRes' = Ok(<<>>)
    /\ isChecked' = (ctrlAlive /\ rbChecked)
    /\ UNCHANGED <<optsKind, msgQueue, hctrl, rbCreated, rbChecked, rbEvents,
                   rbSubclass, guiPanicked>>
    /\ dlgUnchanged

set_check ==
    /\ CanCall
    /\ Called("set_check")
    /\ \E checked \in BOOLEAN :
          rbChecked' = IF ctrlAlive THEN checked ELSE rbChecked
    /\ rbRes' = Ok(<<>>)
    /\ UNCHANGED <<optsKind, msgQueue, hctrl, rbCreated, rbEvents, rbSubclass,
                   guiPanicked>>
    /\ dlgUnchanged
    /\ UNCHANGED isChecked

\* PostMessage: to a null handle the message goes to the thread's queue; to
\* a window that is gone it fails
trigger_click ==
    /\ CanCall
    /\ Called("trigger_click")
    /\ IF (hctrl = NULL \/ ctrlAlive) /\ Len(msgQueue) < MaxQueue
          THEN /\ msgQueue' =
                     Append(msgQueue, [hwnd |-> hctrl, msg |-> "BM_CLICK"])
               /\ rbRes' = Ok(<<>>)
          ELSE /\ \E e \in SysErrors : rbRes' = Err(e)
               /\ UNCHANGED msgQueue
    /\ UNCHANGED <<optsKind, hctrl, rbCreated, rbChecked, rbEvents,
                   rbSubclass, guiPanicked>>
    /\ dlgUnchanged
    /\ UNCHANGED isChecked

\* ---------------------------------------------------------- specifications
Init == HdwpInit /\ ComIdle /\ GuiIdle

Next ==
    \/ \E g \in Guards : BeginDeferWindowPos(g)
    \/ \E g \in Guards : DeferWindowPos(g)
    \/ \E g \in Guards : HdwpGuard_drop(g)

Spec == Init /\ [][Next /\ UNCHANGED <<comVars, guiVars>>]_vars

ComSpecInit == HdwpInit /\ ComInit /\ GuiIdle

ComNext ==
    \/ GetAvailable
    \/ GetPositions
    \/ GetStopPosition
    \/ GetTimeFormat
    \/ SetPositions
    \/ SetSaveAsItem
    \/ \E w \in Wrappers : ComWrapper_drop(w)

ComSpec == ComSpecInit /\ [][ComNext /\ UNCHANGED <<hdwpVars, guiVars>>]_vars

GuiSpecInit == HdwpInit /\ ComIdle /\ GuiInit

\* GetMessage returns whenever a message or a quit is there to deliver
LoopStep == LoopQuit \/ LoopDispatch

GuiNext ==
    \/ run_main_enter
    \/ UserClose
    \/ LoopGetMessageError
    \/ LoopQuit
    \/ LoopDispatch
    \/ RadioButton_create_boxfail
    \/ RadioButton_create
    \/ hwnd
    \/ on
    \/ on_subclass
    \/ is_checked
    \/ set_check
    \/ trigger_click

GuiSpec == GuiSpecInit /\ [][GuiNext /\ UNCHANGED <<hdwpVars, comVars>>]_vars

\* The message loop keeps running while it has something to do
loopVars == <<msgQueue, runState>>

FairGuiSpec == GuiSpec /\ WF_loopVars(LoopStep)


\* ------------------------------------------------------------------ claims

\* C1: for every guard obtained from a successful BeginDeferWindowPos on
\* which no DeferWindowPos call has failed, EndDeferWindowPos has not been
\* called while the guard is in scope and has been called exactly once when
\* the guard has gone out of scope.
C1_EndOnceAtDrop ==
    \A g \in Guards :
        (guard[g].st # "none" /\ ~failed[g]) =>
            /\ guard[g].st = "live" => endCalls[g] = 0
            /\ guard[g].st = "dropped" => endCalls[g] = 1

C1_Witness ==
    \E g \in Guards :
        /\ guard[g].st = "dropped"
        /\ ~failed[g]
        /\ nDefer[g] > 0
        /\ endCalls[g] = 1

\* C2: a DeferWindowPos call that gets a null handle from the OS stores
\* INVALID and returns Err with the last-error code; once a call on a guard
\* has failed its handle stays INVALID and EndDeferWindowPos is never called
\* for it, whatever is called on it afterwards, drop included.
C2_FailedNeverEnds ==
    /\ [](\A g \in Guards :
            failed[g] => guard[g].handle = INVALID /\ endCalls[g] = 0)
    /\ [][\A g \in Guards :
            (nDefer'[g] # nDefer[g] /\ osRet'[g] = NULL) =>
                /\ guard'[g].handle = INVALID
                /\ hdwpRes'[g] = Err(lastError')]_vars

\* a guard dropped after a second DeferWindowPos call was made on the
\* already invalidated handle
C2_Witness ==
    \E g \in Guards :
        /\ guard[g].st = "dropped"
        /\ failed[g]
        /\ hdwpRes[g] = Err(ERROR_INVALID_HANDLE)
        /\ endCalls[g] = 0

\* C3: after successful DeferWindowPos calls the stored handle is the one
\* the most recent call got from the OS, and that handle is the one
\* EndDeferWindowPos receives at drop.
C3_HandleFollowsOs ==
    \A g \in Guards :
        (nDefer[g] > 0 /\ ~failed[g]) =>
            /\ guard[g].handle = osRet[g]
            /\ guard[g].st = "dropped" =>
                  endCalls[g] = 1 /\ endArg[g] = osRet[g]

\* a guard dropped after the OS reallocated its structure
C3_Witness ==
    \E g \in Guards :
        /\ guard[g].st = "dropped"
        /\ nDefer[g] > 0
        /\ ~failed[g]
        /\ osRet[g] # beginRet[g]
        /\ endArg[g] = osRet[g]

\* C4: GetAvailable invokes the GetAvailable entry of the virtual table
\* and, when it returns Ok, returns the (earliest, latest) pair of the
\* object.
C4_GetAvailableForwards ==
    comOp = "GetAvailable" =>
        /\ vtLast = "GetAvailable"
        /\ comRes.ok => comRes.val = <<comObj.early, comObj.late>>

\* C5: GetTimeFormat invokes the GetTimeFormat entry of the virtual table
\* and, when it returns Ok, returns the time format of the object.
C5_GetTimeFormatForwards ==
    comOp = "GetTimeFormat" =>
        /\ vtLast = "GetTimeFormat"
        /\ comRes.ok => comRes.val = comObj.format

\* C6: GetPositions invokes the GetPositions entry; on S_OK it returns
\* Ok((current, stop)) in that order, and on a failure code (negative
\* HRESULT) it returns Err without the out-values.
C6_GetPositions ==
    comOp = "GetPositions" =>
        /\ vtLast = "GetPositions"
        /\ comHr = S_OK => comRes.ok
        /\ comRes.ok => comRes.val = <<comObj.current, comObj.stop>>
        /\ comHr < 0 => ~comRes.ok /\ comRes.val = <<>>

C6_Witness ==
    /\ comOp = "GetPositions"
    /\ comRes.ok
    /\ comObj.current # comObj.stop
    /\ <<comObj.current, comObj.stop>> # <<comObj.early, comObj.late>>

\* C7: a COM wrapper has made no Release call while it is in scope and
\* exactly one once it is dropped, and no method is called through a
\* wrapper after its Release.
C7_ReleaseOnceAtDrop ==
    /\ [](\A w \in Wrappers :
            /\ wrapper[w] = "alive" => releaseCalls[w] = 0
            /\ wrapper[w] = "dropped" => releaseCalls[w] = 1)
    /\ [][\A w \in Wrappers :
            nCalls'[w] # nCalls[w] =>
                releaseCalls[w] = 0 /\ releaseCalls'[w] = 0]_vars

C7_Witness ==
    \A w \in Wrappers :
        wrapper[w] = "dropped" /\ nCalls[w] > 0 /\ releaseCalls[w] = 1

\* C8: a call of on or on_subclass made when the control or its parent
\* window is created panics, and a handler is registered only while neither
\* is created.
C8_OnPanicsAfterCreation ==
    [][/\ (nOps' # nOps /\ guiOp' \in {"on", "on_subclass"}
           /\ (hctrl # NULL \/ dlgHwnd # NULL)) => guiPanicked'
       /\ (rbEvents' # rbEvents \/ rbSubclass' # rbSubclass) =>
              hctrl = NULL /\ dlgHwnd = NULL]_vars

\* on() called with the parent created and the control not yet created
C8_Witness ==
    /\ guiPanicked
    /\ guiOp = "on"
    /\ hctrl = NULL
    /\ dlgHwnd # NULL
    /\ rbEvents > 0

\* C9: once the dialog has received WM_CLOSE the window is destroyed and a
\* quit with code 0 is posted, and run_main eventually returns; run_main
\* returns Ok only after the window was destroyed, with exit code 0.
C9_RunMainBlocksUntilClosed ==
    /\ closeReceived ~> (runState = "returned")
    /\ [](closeReceived =>
            wndDestroyed /\ ~wndAlive /\ quitPosted /\ quitCode = 0)
    /\ [](IF runState = "returned" /\ runRes.ok
             THEN wndDestroyed /\ closeReceived /\ runRes.val = <<0>>
             ELSE TRUE)

C9_Witness ==
    /\ closeReceived
    /\ runState = "returned"
    /\ runRes = Ok(<<0>>)
    /\ wndDestroyed

\* C10: the control handle is null initially; hwnd() returns a non-null
\* handle exactly when a create() has succeeded; and only a successful
\* create() changes the handle.
C10_HwndSetByCreate ==
    /\ [](guiOp = "none" => hctrl = NULL)
    /\ [](guiOp = "hwnd" => (rbRes.val # <<NULL>> <=> rbCreated))
    /\ [][hctrl' # hctrl =>
            /\ nOps' # nOps
            /\ guiOp' = "create"
            /\ rbRes'.ok
            /\ hctrl = NULL]_vars

C10_Witness ==
    /\ guiOp = "hwnd"
    /\ rbCreated
    /\ rbRes.val # <<NULL>>
    /\ rbRes.val = <<hctrl>>

\* The signed HRESULT whose 32-bit pattern is the given error code
FromU32(u) ==
    IF u[1] >= 32768
       THEN (((u[1] - 32768) * 65536 + u[2]) - 2147483647) - 1
       ELSE u[1] * 65536 + u[2]

\* C11: SetPositions invokes the SetPositions entry and returns Ok(())
\* exactly when the entry returned S_OK or S_FALSE; for every other code
\* it returns Err carrying that same code.
C11_SetPositionsResult ==
    comOp = "SetPositions" =>
        /\ vtLast = "SetPositions"
        /\ comRes.ok <=> comHr \in {S_OK, S_FALSE}
        /\ IF comRes.ok THEN comRes.val = <<>>
           ELSE FromU32(comRes.err) = comHr

\* SetPositions answered S_FALSE and returned Ok
C11_Witness ==
    /\ comOp = "SetPositions"
    /\ comHr = S_FALSE
    /\ comRes.ok

====
